---- MODULE Spec2Model ----
(***************************************************************************)
(* The PubSub registry of src/src/pubsub.ts as a state machine.            *)
(*                                                                         *)
(* The registry is the private Map #subs from topic to Set of subscribers. *)
(* A Set keeps insertion order; Set.prototype.forEach visits the entries   *)
(* of the live Set in that order, skips an entry deleted before it is      *)
(* reached and visits an entry appended while the loop runs.  A Set that   *)
(* was removed from the Map is no longer reachable through any method of   *)
(* the class, so its content is frozen; a forEach that was already running *)
(* over it goes on over that frozen content.                               *)
(*                                                                         *)
(* publish runs subscriber callbacks, and a callback is user code that may *)
(* call back into the registry.  A behaviour of the model is therefore a   *)
(* single thread of control: the client calls a method, and while a        *)
(* publish is delivering, the callback that is running makes re-entrant    *)
(* calls, returns or throws.  The call stack holds one frame per publish   *)
(* call in progress.                                                       *)
(*                                                                         *)
(* What a callback does is not in src/: it is any sequence of registry     *)
(* calls followed by a return or a throw.  The error handler (onError) is  *)
(* taken as one step that returns or throws; the default handler only      *)
(* logs.  When the handler throws, nothing in publish catches it: the      *)
(* exception leaves forEach and publish, and reaches the caller, which is  *)
(* the client or, for a re-entrant publish, the callback that called it.   *)
(***************************************************************************)
EXTENDS Integers, Sequences, FiniteSets, TLC

\* ------------------------------------------------------------- bounds

\* plain user callbacks c1..cN (function references the client owns)
NumCallbacks == 2
\* one-shot wrappers that exist at the same time
MaxOnce == 1
\* subscriptions (entries of all Sets together) the registry holds at a time
MaxSubs == 3
\* re-entrant calls made by callbacks during one top-level publish
MaxReentrant == 1

\* ------------------------------------------------------------- values

\* the reserved wildcard topic
WILDCARD == "*"
\* topic names: the wildcard, an ordinary name and the empty string
Topics == {WILDCARD, "a", ""}
\* an argument that was not passed (undefined)
Undefined == "undefined"
Payloads == {"p1", "p2"}
\* what a callback throws
Errors == {"e1"}
\* the topics and payloads of the passes that are followed without a history
LiveTopics == {"a", WILDCARD}
LivePayloads == {"p1"}

Callbacks == 1..NumCallbacks
Wrappers == (NumCallbacks + 1)..(NumCallbacks + MaxOnce)
NoCb == 0

VARIABLES
    subs,    \* #subs: a function whose DOMAIN is the Map's key set; subs[t] is
             \* the Set of topic t as the sequence of its entries in insertion order
    stack,   \* the publish calls in progress, outermost first
    once,    \* the onceWrapper closures that exist: wrapper -> its topic, how
             \* often it was entered and with what, whether it was cancelled
    held,    \* an Unsubscriber closure the client kept (topic, cb), if any
    calls,   \* re-entrant calls made so far during the current top-level publish
    last,    \* the outcome of the most recent call that has come back
    watch    \* whether the history of the calls is kept: the invocations and
             \* errors of each publish (log, errs) and the count of re-entrant
             \* calls.  It never changes.  A history grows with every step, so
             \* a publish that goes on forever is a cycle of states only
             \* without it.

vars == <<subs, stack, once, held, calls, last, watch>>

\* ------------------------------------------------------- Set and Map

Range(s) == {s[i] : i \in 1..Len(s)}

\* Set.prototype.add as it would be if it moved an entry it finds to the end
SetAddMovesLast(s, x) == Append(SelectSeq(s, LAMBDA y : y # x), x)

\* Set.prototype.add: appends unless the value is already an entry
SetAdd(s, x) == IF x \in Range(s) THEN s ELSE Append(s, x)

\* Set.prototype.delete
SetDelete(s, x) == SelectSeq(s, LAMBDA y : y # x)

\* A Map is a function whose DOMAIN is its key set.
EmptyMap == <<>>

\* the Map m with only the keys ks
RECURSIVE Restrict(_, _)
Restrict(m, ks) ==
    IF ks = {} THEN EmptyMap
    ELSE LET k == CHOOSE x \in ks : TRUE
         IN  (k :> m[k]) @@ Restrict(m, ks \ {k})

\* Map.prototype.set / delete, and get(k) of a key that may be absent
MapSet(m, k, v) == (k :> v) @@ m
MapDelete(m, k) == Restrict(m, (DOMAIN m) \ {k})
Entries(m, k) == IF k \in DOMAIN m THEN m[k] ELSE <<>>

\* ------------------------------------------------------- the methods
\* Each method is the function from the Map before the call to the Map after
\* it, and its return value.

\* subscribe(topic, cb): create the Set on first use, add cb
subscribe(m, topic, cb) ==
    LET m1 == IF topic \notin DOMAIN m THEN MapSet(m, topic, <<>>) ELSE m
    IN  MapSet(m1, topic, SetAdd(m1[topic], cb))

\* unsubscribe as it would be if it took every call for unsubscribe(topic)
unsubscribeDropsTopic(m, topic, cb) ==
    IF topic \in DOMAIN m THEN MapDelete(m, topic) ELSE m

\* unsubscribe as it would be without "if (subscribers.size === 0) delete"
unsubscribeKeepsEmptySet(m, topic, cb) ==
    IF topic \notin DOMAIN m THEN m
    ELSE IF cb # NoCb
         THEN MapSet(m, topic, SetDelete(m[topic], cb))
         ELSE MapDelete(m, topic)

\* unsubscribe(topic, cb?): cb = NoCb stands for the omitted argument
unsubscribe(m, topic, cb) ==
    IF topic \notin DOMAIN m THEN m
    ELSE IF cb # NoCb
         THEN LET subscribers == SetDelete(m[topic], cb)
              IN  IF Len(subscribers) = 0
                  THEN MapDelete(m, topic)
                  ELSE MapSet(m, topic, subscribers)
         ELSE MapDelete(m, topic)

\* unsubscribe as it would be without "removed = subscribers.delete(cb)"
unsubscribeResultTopicOnly(m, topic, cb) == topic \in DOMAIN m

unsubscribeResult(m, topic, cb) ==
    IF topic \notin DOMAIN m THEN FALSE
    ELSE IF cb # NoCb THEN cb \in Range(m[topic])
         ELSE TRUE

\* if (topic): the empty string and undefined are falsy
Truthy(topic) == topic \notin {"", Undefined}

\* unsubscribeAll(topic?)
unsubscribeAll(m, topic) ==
    IF Truthy(topic)
    THEN IF topic \notin DOMAIN m THEN m ELSE MapDelete(m, topic)
    ELSE EmptyMap

unsubscribeAllResult(m, topic) ==
    IF Truthy(topic) THEN topic \in DOMAIN m ELSE TRUE

\* isSubscribed as it would be if it never looked at the Set of "*"
isSubscribedDirectOnly(m, topic, cb, considerWildcard) ==
    cb \in Range(Entries(m, topic))

\* isSubscribed(topic, cb, considerWildcard)
isSubscribed(m, topic, cb, considerWildcard) ==
    LET has == cb \in Range(Entries(m, topic))
    IN  IF considerWildcard
        THEN has \/ cb \in Range(Entries(m, WILDCARD))
        ELSE has

\* isSubscribed as it would be if it read the Map through an accessor that
\* creates the Set of a topic on first use
isSubscribedCreatesEntry(m, topic) ==
    IF topic \in DOMAIN m THEN m ELSE MapSet(m, topic, <<>>)

\* the Map after isSubscribed: this.#subs.get(topic)?.has(cb) only reads
isSubscribedEffect(m, topic) == m

\* the value publish returns, read from the Map when delivery is over
publishResult(m, topic) == topic \in DOMAIN m

\* what the first forEach of publish passes to a callback: the data itself
directArg(topic, data) == [envelope |-> FALSE, event |-> Undefined, data |-> data]

\* the second forEach as it would be if it passed the data itself
wildcardArgRaw(topic, data) == [envelope |-> FALSE, event |-> Undefined, data |-> data]

\* what the second forEach passes: the envelope { event: topic, data }
wildcardArg(topic, data) == [envelope |-> TRUE, event |-> topic, data |-> data]

NoArg == [envelope |-> FALSE, event |-> Undefined, data |-> Undefined]

\* publish as it would be without the test of topic !== "*"
hasWildcardPassAlways(topic) == TRUE

\* if (topic !== "*"): whether publish makes the second, wildcard pass
hasWildcardPass(topic) == topic # WILDCARD

\* the catch of the second forEach as it would be with the flag of the first
wildcardErrorUnflagged(error, topic) ==
    [error |-> error, topic |-> topic, isWildcard |-> FALSE]

\* the arguments of #onError in the catch of the first and of the second forEach
directError(error, topic) == [error |-> error, topic |-> topic, isWildcard |-> FALSE]
wildcardError(error, topic) == [error |-> error, topic |-> topic, isWildcard |-> TRUE]

\* onceWrapper as it would be if it never unsubscribed itself
onceWrapperStays(m, topic, wrapper, e) == m

\* onceWrapper as it would be with cb(data); this.unsubscribe(...) in sequence,
\* without try/finally
onceWrapperNoFinally(m, topic, wrapper, e) ==
    IF e = "ok" THEN unsubscribe(m, topic, wrapper) ELSE m

\* onceWrapper: try { cb(data) } finally { this.unsubscribe(topic, onceWrapper) }.
\* The Map after the wrapper is left, cb having returned (e = "ok") or thrown e.
onceWrapper(m, topic, wrapper, e) == unsubscribe(m, topic, wrapper)

\* the forEach bodies as they would be without try/catch
leavesPublishUncaught(e, handlerThrows) == e # "ok"

\* try { cb(...) } catch (error) { this.#onError(...) } in both forEach bodies:
\* an error leaves publish only when the error handler throws itself
leavesPublish(e, handlerThrows) == e # "ok" /\ handlerThrows

\* the closure subscribe returns as it would be if it did nothing
unsubscriberCallNoOp(m, u) == m

\* the closure subscribe returns: () => this.unsubscribe(topic, cb)
unsubscriberCall(m, u) == unsubscribe(m, u.topic, u.cb)
unsubscriberResult(m, u) == unsubscribeResult(m, u.topic, u.cb)

\* ------------------------------------------------- a publish in progress
\* One frame per publish call that has not come back.  phase tells which of
\* the two forEach loops is running, idx how many entries of the Set that loop
\* has gone past, running which callback is executing.  live tells whether
\* the Set under the loop is still the Map's entry for its key; when it is
\* not, orphan is the content that Set was left with.  snapD, snapW, finalD,
\* log, errs, mutated and gone record what happened, for the properties; gone
\* is the set of subscribers taken out of the Set of the topic while the first
\* loop was running.

Key(f) == IF f.phase = "direct" THEN f.topic ELSE WILDCARD

Content(f, m) == IF f.live THEN m[Key(f)] ELSE f.orphan

\* publish(topic, data) is entered: this.#subs.get(topic)?.forEach(...)
NewFrame(m, topic, data) ==
    [topic |-> topic, data |-> data, phase |-> "direct",
     live |-> topic \in DOMAIN m, orphan |-> <<>>, idx |-> 0, running |-> NoCb,
     log |-> <<>>, errs |-> <<>>,
     snapD |-> Entries(m, topic), snapW |-> Entries(m, WILDCARD),
     finalD |-> <<>>, mutated |-> FALSE, gone |-> {}]

\* the first loop is over: this.#subs.get("*")?.forEach(...)
EnterWildcard(f, m) ==
    [f EXCEPT !.phase = "wild", !.live = WILDCARD \in DOMAIN m, !.orphan = <<>>,
              !.idx = 0, !.finalD = Content(f, m)]

Exhausted(f, m) == f.idx >= Len(Content(f, m))

\* the frame at the next entry to visit, if there is any left in either loop
Settle(f, m) ==
    IF Exhausted(f, m) /\ f.phase = "direct" /\ hasWildcardPass(f.topic)
    THEN EnterWildcard(f, m)
    ELSE f

\* forEach as it would be if it went through the Set from its last entry
InvokeBackwards(f, m) ==
    LET s == Content(f, m)[Len(Content(f, m)) - f.idx]
    IN  [f EXCEPT !.idx = @ + 1, !.running = s,
                  !.log = Append(@, [sub |-> s, wild |-> f.phase = "wild",
                                     arg |-> IF f.phase = "direct"
                                             THEN directArg(f.topic, f.data)
                                             ELSE wildcardArg(f.topic, f.data),
                                     out |-> "run"])]

\* what the loop that is running passes to a callback
Argument(f) ==
    IF f.phase = "direct" THEN directArg(f.topic, f.data)
                          ELSE wildcardArg(f.topic, f.data)

\* forEach calls the callback on the next entry: cb(data) or cb({event, data})
Invoke(f, m) ==
    LET s == Content(f, m)[f.idx + 1]
    IN  [f EXCEPT !.idx = @ + 1, !.running = s,
                  !.log = IF watch
                          THEN Append(@, [sub |-> s, wild |-> f.phase = "wild",
                                          arg |-> Argument(f), out |-> "run"])
                          ELSE @]

\* forEach as it would be if it went by position in an array of the entries:
\* the position stays where it was when an entry behind it is deleted
RebaseKeepsIndex(f, m, m2, x, mark) ==
    LET k == Key(f)
        g == [f EXCEPT !.mutated = @ \/ (mark /\ m2 # m),
                       !.gone = IF f.phase = "direct"
                                THEN @ \cup (Range(Entries(m, f.topic))
                                             \ Range(Entries(m2, f.topic)))
                                ELSE @]
    IN  IF ~f.live THEN g
        ELSE [g EXCEPT !.live = k \in DOMAIN m2,
                       !.orphan = IF k \in DOMAIN m2 THEN <<>>
                                  ELSE SetDelete(m[k], x)]

\* The Map went from m to m2 by one method call that deleted entry x (NoCb:
\* none) from a Set.  A running forEach over a Set that lost entries it had
\* gone past has that many fewer behind it; a Set whose key was deleted is no
\* longer the Map's and keeps the content it had.
Rebase(f, m, m2, x, mark) ==
    LET k   == Key(f)
        old == m[k]
        new == IF k \in DOMAIN m2 THEN m2[k] ELSE SetDelete(old, x)
        g   == [f EXCEPT !.mutated = @ \/ (mark /\ m2 # m),
                         !.gone = IF f.phase = "direct"
                                  THEN @ \cup (Range(Entries(m, f.topic))
                                               \ Range(Entries(m2, f.topic)))
                                  ELSE @]
    IN  IF ~f.live THEN g
        ELSE [g EXCEPT !.idx = Len(SelectSeq(SubSeq(old, 1, f.idx),
                                             LAMBDA y : y \in Range(new))),
                       !.live = k \in DOMAIN m2,
                       !.orphan = IF k \in DOMAIN m2 THEN <<>> ELSE new]

\* every frame rebased; the frames 1..upto are marked as changed by a callback
RECURSIVE RebaseAll(_, _, _, _, _)
RebaseAll(stk, m, m2, x, upto) ==
    IF stk = <<>> THEN <<>>
    ELSE LET n == Len(stk)
         IN  Append(RebaseAll(SubSeq(stk, 1, n - 1), m, m2, x, upto),
                    Rebase(stk[n], m, m2, x, n <= upto))

\* the record of a publish call that has come back (returned or threw)
Outcome(f, m, status, depth, handlerThrew) ==
    [op |-> "publish", topic |-> f.topic, data |-> f.data, status |-> status,
     handlerThrew |-> handlerThrew,
     val |-> publishResult(m, f.topic), depth |-> depth,
     log |-> f.log, errs |-> f.errs, snapD |-> f.snapD, snapW |-> f.snapW,
     finalD |-> IF f.phase = "direct" THEN Content(f, m) ELSE f.finalD,
     finalW |-> IF f.phase = "wild" THEN Content(f, m) ELSE <<>>,
     mutated |-> f.mutated, gone |-> f.gone]

NoLast == [op |-> "none"]

\* a onceWrapper is entered: it calls the user callback with its argument
Entered(o, s, arg) ==
    IF s \in DOMAIN o
    THEN [o EXCEPT ![s].n = @ + 1, ![s].arg = IF o[s].n = 0 THEN arg ELSE @]
    ELSE o

\* The publish on top of the stack goes on until it calls the next callback
\* or comes back: the stack, the wrappers and the last outcome after that.
Step(stk, m, o, lst) ==
    LET i == Len(stk)
        f == Settle(stk[i], m)
    IN  IF ~Exhausted(f, m)
        THEN LET g == Invoke(f, m)
             IN  [stack |-> [stk EXCEPT ![i] = g],
                  once  |-> Entered(o, g.running, Argument(f)),
                  last  |-> lst]
        ELSE [stack |-> SubSeq(stk, 1, i - 1),
              once  |-> o,
              last  |-> Outcome(f, m, "returned", i - 1, FALSE)]

\* ------------------------------------------------------------ the state

NoHeld == [topic |-> Undefined, cb |-> NoCb, used |-> FALSE]

\* new PubSub(): an empty Map, nothing in progress
Init ==
    /\ subs = EmptyMap
    /\ stack = <<>>
    /\ once = EmptyMap
    /\ held = NoHeld
    /\ calls = 0
    /\ last = NoLast
    /\ watch = TRUE

\* the client is the caller (no publish is in progress)
Client == stack = <<>>

\* A method can be called by the client, or by the callback that is running,
\* once the caller has taken the outcome of the call before.
CanCall == last = NoLast /\ (Client \/ ~watch \/ calls < MaxReentrant)

\* a wrapper that is in no Set of the Map can never be called again, and
\* nothing refers to it once the publish calls in progress are over; the
\* record of a wrapper that was cancelled before any publish is kept, to be
\* watched
Registered(m, s) == \E t \in DOMAIN m : s \in Range(m[t])
Purge(o, m) == Restrict(o, {v \in DOMAIN o : Registered(m, v) \/ o[v].cancelled})

\* the number of subscriptions in the Map
RECURSIVE SizeOver(_, _)
SizeOver(m, ks) ==
    IF ks = {} THEN 0
    ELSE LET k == CHOOSE x \in ks : TRUE
         IN  Len(m[k]) + SizeOver(m, ks \ {k})
Size(m) == SizeOver(m, DOMAIN m)

\* the state after a method that turns the Map into m2, deleting entry x
Registry(m2, x, o2, h2, lst) ==
    /\ subs' = m2
    /\ stack' = RebaseAll(stack, subs, m2, x, Len(stack))
    /\ once' = o2
    /\ held' = h2
    /\ calls' = IF Client \/ ~watch THEN 0 ELSE calls + 1
    /\ last' = lst
    /\ UNCHANGED watch

\* ---------------------------------------------------------- the actions

\* subscribe(topic, cb); the caller keeps the returned Unsubscriber or not
Subscribe(topic, cb, keep) ==
    /\ CanCall
    /\ Size(subscribe(subs, topic, cb)) <= MaxSubs
    /\ Registry(subscribe(subs, topic, cb), NoCb, once,
                IF keep THEN [topic |-> topic, cb |-> cb, used |-> FALSE] ELSE held,
                [op |-> "subscribe", topic |-> topic, cb |-> cb, val |-> TRUE,
                 status |-> "returned",
                 had |-> cb \in Range(Entries(subs, topic)), before |-> subs])

\* subscribeOnce(topic, cb): a new onceWrapper closure is subscribed
SubscribeOnce(topic, cb) ==
    /\ CanCall
    /\ Size(subs) < MaxSubs
    /\ Wrappers \ DOMAIN once # {}
    /\ LET w  == CHOOSE v \in Wrappers \ DOMAIN once :
                     \A u \in Wrappers \ DOMAIN once : v <= u
           o2 == MapSet(once, w, [topic |-> topic, n |-> 0, arg |-> NoArg,
                                  cancelled |-> FALSE])
       IN  Registry(subscribe(subs, topic, w), NoCb, o2, held,
                    [op |-> "subscribeOnce", topic |-> topic, cb |-> w,
                     val |-> TRUE])

\* unsubscribe(topic, cb) and unsubscribe(topic)
Unsubscribe(topic, cb) ==
    /\ CanCall
    /\ Registry(unsubscribe(subs, topic, cb), cb, once, held,
                [op |-> "unsubscribe", topic |-> topic, cb |-> cb,
                 val |-> unsubscribeResult(subs, topic, cb)])

\* unsubscribeAll(topic) and unsubscribeAll()
UnsubscribeAll(topic) ==
    /\ CanCall
    /\ Registry(unsubscribeAll(subs, topic), NoCb, once, held,
                [op |-> "unsubscribeAll", topic |-> topic, cb |-> NoCb,
                 val |-> unsubscribeAllResult(subs, topic)])

\* the Unsubscriber closures that can be called: the one that was kept, and
\* the one subscribeOnce returned for each wrapper
HeldUnsubscriber == [topic |-> held.topic, cb |-> held.cb]
Unsubscribers ==
    (IF held.cb # NoCb THEN {HeldUnsubscriber} ELSE {})
    \cup {[topic |-> once[w].topic, cb |-> w] : w \in DOMAIN once}

\* a publish call in progress delivers to the subscribers of topic t
Delivering(t) ==
    \E i \in 1..Len(stack) : stack[i].topic = t \/ t = WILDCARD

\* the one-shot subscription of wrapper w has not been served and no publish
\* to its topic is in progress
Pending(w) == once[w].n = 0 /\ ~Delivering(once[w].topic)

\* an Unsubscriber is called
CallUnsubscriber(u) ==
    /\ CanCall
    /\ u \in Unsubscribers
    /\ LET r  == unsubscriberResult(subs, u)
           o2 == IF u.cb \in DOMAIN once /\ Pending(u.cb)
                 THEN MapSet(once, u.cb, [once[u.cb] EXCEPT !.cancelled = TRUE])
                 ELSE once
       IN  Registry(unsubscriberCall(subs, u), u.cb, o2,
                    IF u = HeldUnsubscriber
                    THEN [held EXCEPT !.used = @ \/ r] ELSE held,
                    [op |-> "unsubscriber", topic |-> u.topic, cb |-> u.cb,
                     val |-> r,
                     again |-> (u = HeldUnsubscriber /\ held.used)])

\* isSubscribed(topic, cb, considerWildcard)
IsSubscribed(topic, cb, considerWildcard) ==
    /\ CanCall
    /\ Registry(isSubscribedEffect(subs, topic), NoCb, once, held,
                [op |-> "isSubscribed", topic |-> topic, cb |-> cb,
                 considerWildcard |-> considerWildcard,
                 val |-> isSubscribed(subs, topic, cb, considerWildcard)])

\* What the client can do with the object __dump() returns: Object.fromEntries
\* builds a new object, whose values are the Sets of the Map themselves.
\* __dump()[topic].add(cb), .delete(cb) and .clear() act on the Set of the Map;
\* delete __dump()[topic] acts on the new object alone.
dumpSetAdd(m, topic, cb) == MapSet(m, topic, SetAdd(m[topic], cb))
dumpSetDelete(m, topic, cb) == MapSet(m, topic, SetDelete(m[topic], cb))
dumpSetClear(m, topic) == MapSet(m, topic, <<>>)
dumpDeleteKey(m, topic) == m

DumpSetAdd(topic, cb) ==
    /\ CanCall
    /\ topic \in DOMAIN subs
    /\ Size(dumpSetAdd(subs, topic, cb)) <= MaxSubs
    /\ Registry(dumpSetAdd(subs, topic, cb), NoCb, once, held,
                [op |-> "dump", topic |-> topic, cb |-> cb, val |-> "add"])

DumpSetDelete(topic, cb) ==
    /\ CanCall
    /\ topic \in DOMAIN subs
    /\ Registry(dumpSetDelete(subs, topic, cb), cb, once, held,
                [op |-> "dump", topic |-> topic, cb |-> cb, val |-> "delete"])

DumpSetClear(topic) ==
    /\ CanCall
    /\ topic \in DOMAIN subs
    /\ Registry(dumpSetClear(subs, topic), NoCb, once, held,
                [op |-> "dump", topic |-> topic, cb |-> NoCb, val |-> "clear"])

DumpDeleteKey(topic) ==
    /\ CanCall
    /\ topic \in DOMAIN subs
    /\ Registry(dumpDeleteKey(subs, topic), NoCb, once, held,
                [op |-> "dump", topic |-> topic, cb |-> NoCb, val |-> "deleteKey"])

\* publish(topic, data) is called and runs up to its first callback, or comes
\* back at once when there is nobody to call
Publish(topic, data) ==
    /\ CanCall
    /\ LET r == Step(Append(stack, NewFrame(subs, topic, data)), subs,
                     once, NoLast)
       IN  /\ stack' = r.stack
           /\ once' = r.once
           /\ last' = r.last
           /\ calls' = IF Client \/ ~watch THEN 0 ELSE calls + 1
           /\ UNCHANGED <<subs, held, watch>>

\* The callback that is running is over, normally (e = "ok") or by throwing
\* e.  A onceWrapper runs its finally block first.  An error is caught by the
\* forEach body and passed to #onError, which returns or throws itself
\* (handlerThrows): then publish is left by that exception.  Otherwise the
\* loop goes on to the next callback, or publish returns.
Finish(e, handlerThrows) ==
    LET i   == Len(stack)
        f   == stack[i]
        s   == f.running
        m2  == IF s \in Wrappers THEN onceWrapper(subs, once[s].topic, s, e) ELSE subs
        f1  == IF watch
               THEN [f EXCEPT !.running = NoCb, !.log[Len(f.log)].out = e]
               ELSE [f EXCEPT !.running = NoCb]
        f2  == IF e = "ok" \/ ~watch THEN f1
               ELSE [f1 EXCEPT !.errs = Append(@, IF f.phase = "direct"
                                                  THEN directError(e, f.topic)
                                                  ELSE wildcardError(e, f.topic))]
        stk == RebaseAll([stack EXCEPT ![i] = f2], subs, m2, s, i - 1)
        r   == IF leavesPublish(e, handlerThrows)
               THEN [stack |-> SubSeq(stk, 1, i - 1), once |-> once,
                     last |-> Outcome(stk[i], m2, "threw", i - 1, handlerThrows)]
               ELSE Step(stk, m2, once, last)
    IN  /\ subs' = m2
        /\ stack' = r.stack
        /\ once' = r.once
        /\ last' = r.last
        /\ calls' = IF r.stack = <<>> THEN 0 ELSE calls
        /\ UNCHANGED <<held, watch>>

\* cb(...) returns
CallbackReturn ==
    /\ ~Client
    /\ last = NoLast
    /\ Finish("ok", FALSE)

\* cb(...) throws error; the error handler returns or throws
CallbackThrow(error, handlerThrows) ==
    /\ ~Client
    /\ last = NoLast
    /\ Finish(error, handlerThrows)

\* The caller goes on after a call: the client, or the callback that made
\* the call.  A onceWrapper that is in no Set of the Map when the client is
\* back in control is unreachable (only subscribeOnce ever subscribes it).
Resume ==
    /\ last # NoLast
    /\ last' = NoLast
    /\ once' = IF Client THEN Purge(once, subs) ELSE once
    /\ UNCHANGED <<subs, stack, held, calls, watch>>

\* Everything the client and the callbacks can do.  The Unsubscriber that
\* subscribe returns is dropped here: calling it is unsubscribe(topic, cb),
\* which the caller can do anyway.  ClientNext follows one that is kept.
Next ==
    \/ \E t \in Topics, cb \in Callbacks : Subscribe(t, cb, FALSE)
    \/ \E t \in Topics, cb \in Callbacks : SubscribeOnce(t, cb)
    \/ \E t \in Topics, cb \in Callbacks \cup {NoCb} : Unsubscribe(t, cb)
    \/ \E t \in Topics \cup {Undefined} : UnsubscribeAll(t)
    \/ \E u \in Unsubscribers : CallUnsubscriber(u)
    \/ \E t \in Topics, d \in Payloads : Publish(t, d)
    \/ CallbackReturn
    \/ \E e \in Errors, h \in BOOLEAN : CallbackThrow(e, h)
    \/ Resume

Spec == Init /\ [][Next]_vars

\* The client alone, no publish: it keeps an Unsubscriber that subscribe
\* returned and calls it whenever it likes.  Every Map that Spec reaches is
\* reached here too (a Map is built by subscribe calls alone).
ClientNext ==
    \/ \E t \in Topics, cb \in Callbacks, keep \in BOOLEAN : Subscribe(t, cb, keep)
    \/ \E t \in Topics, cb \in Callbacks : SubscribeOnce(t, cb)
    \/ \E t \in Topics, cb \in Callbacks \cup {NoCb} : Unsubscribe(t, cb)
    \/ \E t \in Topics \cup {Undefined} : UnsubscribeAll(t)
    \/ \E u \in Unsubscribers : CallUnsubscriber(u)
    \/ \E t \in Topics, cb \in Callbacks, w \in BOOLEAN : IsSubscribed(t, cb, w)
    \/ Resume

SpecClient == Init /\ [][ClientNext]_vars

\* The client with the debug dump in hand: it subscribes, asks isSubscribed,
\* and changes what __dump() returned.
DumpNext ==
    \/ \E t \in Topics, cb \in Callbacks : Subscribe(t, cb, FALSE)
    \/ \E t \in Topics, cb \in Callbacks \cup {NoCb} : Unsubscribe(t, cb)
    \/ \E t \in Topics, cb \in Callbacks, w \in BOOLEAN : IsSubscribed(t, cb, w)
    \/ \E t \in Topics, cb \in Callbacks : DumpSetAdd(t, cb)
    \/ \E t \in Topics, cb \in Callbacks : DumpSetDelete(t, cb)
    \/ \E t \in Topics : DumpSetClear(t)
    \/ \E t \in Topics : DumpDeleteKey(t)
    \/ Resume

SpecDump == Init /\ [][DumpNext]_vars

\* The passes of publish when callbacks call subscribe and unsubscribe as
\* often as they like, and never publish: the client subscribes and
\* publishes, the callback that is running subscribes, unsubscribes, returns
\* or throws.  No history is kept.
InitLive ==
    /\ subs = EmptyMap
    /\ stack = <<>>
    /\ once = EmptyMap
    /\ held = NoHeld
    /\ calls = 0
    /\ last = NoLast
    /\ watch = FALSE

LiveNext ==
    \/ \E t \in LiveTopics, cb \in Callbacks : Subscribe(t, cb, FALSE)
    \/ \E t \in LiveTopics, cb \in Callbacks \cup {NoCb} : Unsubscribe(t, cb)
    \/ \E t \in LiveTopics, d \in LivePayloads : Client /\ Publish(t, d)
    \/ CallbackReturn
    \/ \E e \in Errors, h \in BOOLEAN : CallbackThrow(e, h)
    \/ Resume

\* the callback that is running comes to its end
CallbackEnds ==
    CallbackReturn \/ \E e \in Errors, h \in BOOLEAN : CallbackThrow(e, h)

\* a callback is running and is not waiting for a call to come back: it can
\* return or throw (Running is ENABLED <<CallbackEnds>>_vars)
Running == ~Client /\ last = NoLast

\* Every call that came back is taken by its caller (weak fairness of Resume),
\* and every callback invocation ends: however many calls a callback makes,
\* it returns or throws after finitely many.  That is strong fairness of
\* CallbackEnds, SF_vars(CallbackEnds), written with its enabling condition.
SpecLive ==
    /\ InitLive /\ [][LiveNext]_vars
    /\ WF_vars(Resume)
    /\ (<>[](~Running) \/ []<><<CallbackEnds>>_vars)

\* ------------------------------------------------------- the properties
\* A property of a publish call is stated on its record: the frame while the
\* call is in progress, the outcome in last once it has come back.

\* a publish call has just come back; it returned; it returned and no
\* re-entrant call made by a callback changed the Map while it ran
Published == last.op = "publish"
Returned == Published /\ last.status = "returned"
Undisturbed == Returned /\ ~last.mutated

\* how often the first (wild = FALSE) or the second (wild = TRUE) forEach of
\* the publish call x invoked subscriber s
Invocations(x, s, wild) ==
    Cardinality({i \in 1..Len(x.log) : x.log[i].sub = s /\ x.log[i].wild = wild})

DirectLog(x) == SelectSeq(x.log, LAMBDA e : ~e.wild)
WildLog(x) == SelectSeq(x.log, LAMBDA e : e.wild)

\* the subscribers of "*" that the publish call x fans out to
FanOut(x) == IF x.topic # WILDCARD THEN x.snapW ELSE <<>>

\* C1: no topic is present in the registry with an empty subscriber set, in
\* any state a sequence of calls reaches, calls made from inside callbacks
\* included: the entry of a topic goes with its last subscriber.
NoEmptyTopic == \A t \in DOMAIN subs : Len(subs[t]) > 0

\* a callback has removed the last subscriber of a topic during a publish
NoEmptyTopicWitness ==
    /\ last.op = "unsubscribe" /\ last.cb # NoCb /\ last.val
    /\ last.topic \notin DOMAIN subs
    /\ stack # <<>>

ExactlyOnce(x) ==
    /\ \A s \in Range(x.snapD) : Invocations(x, s, FALSE) = 1
    /\ \A s \in Range(FanOut(x)) : Invocations(x, s, TRUE) = 1
    /\ \A i \in 1..Len(x.log) :
          IF x.log[i].wild
          THEN /\ x.log[i].sub \in Range(FanOut(x))
               /\ x.log[i].arg = [envelope |-> TRUE, event |-> x.topic,
                                  data |-> x.data]
          ELSE /\ x.log[i].sub \in Range(x.snapD)
               /\ x.log[i].arg = [envelope |-> FALSE, event |-> Undefined,
                                  data |-> x.data]

RoutingAsStated == (Published /\ last.topic # WILDCARD) => ExactlyOnce(last)

\* the argument of every invocation: the payload in the first forEach, the
\* envelope naming the published topic in the second
ArgumentForm(x) ==
    \A i \in 1..Len(x.log) :
        x.log[i].arg = IF x.log[i].wild
                       THEN [envelope |-> TRUE, event |-> x.topic, data |-> x.data]
                       ELSE [envelope |-> FALSE, event |-> Undefined, data |-> x.data]

\* C3: in every publish(T, p) with T other than "*", a direct subscriber is
\* called with p and a subscriber of "*" with the envelope {event: T, data: p};
\* and when the call returns and no re-entrant call of a callback changed the
\* registry meanwhile, the subscribers of T and of "*" at the time of the call
\* were invoked exactly once each, and nobody else.
Routing ==
    /\ \A i \in 1..Len(stack) :
          stack[i].topic # WILDCARD => ArgumentForm(stack[i])
    /\ (Published /\ last.topic # WILDCARD) => ArgumentForm(last)
    /\ (Undisturbed /\ last.topic # WILDCARD) => ExactlyOnce(last)

\* a publish to "a" with a direct and a wildcard subscriber, and a subscriber
\* of a third topic, has returned undisturbed
RoutingWitness ==
    /\ Undisturbed /\ last.topic = "a"
    /\ Len(last.snapD) >= 1 /\ Len(last.snapW) >= 1
    /\ "" \in DOMAIN subs

\* C4 (as stated): publish("*", p) invokes each subscriber of "*" exactly once
\* with p itself, without envelope and without a second delivery.
WildcardPublishAsStated ==
    (Published /\ last.topic = WILDCARD) => ExactlyOnce(last)

\* C4: a publish("*", p) makes no fan-out pass and calls every subscriber with
\* p itself; and when the call returns and no re-entrant call of a callback
\* changed the registry meanwhile, the subscribers of "*" at the time of the
\* call were invoked exactly once each, and nobody else.
WildcardPublish ==
    /\ \A i \in 1..Len(stack) :
          stack[i].topic = WILDCARD =>
              ArgumentForm(stack[i]) /\ WildLog(stack[i]) = <<>>
    /\ (Published /\ last.topic = WILDCARD) =>
          ArgumentForm(last) /\ WildLog(last) = <<>>
    /\ (Undisturbed /\ last.topic = WILDCARD) => ExactlyOnce(last)

\* a publish to "*" with two subscribers has returned undisturbed, another
\* topic having a subscriber too
WildcardPublishWitness ==
    /\ Undisturbed /\ last.topic = WILDCARD
    /\ Len(last.snapD) >= 2
    /\ "a" \in DOMAIN subs

\* C5: a publish(T, p) in which subscribers throw is left by an exception only
\* when the error handler threw; when it did not, publish returns and every
\* subscriber the two loops ended with has been invoked, as has, in a call no
\* re-entrant call disturbed, every subscriber T and "*" had at the call.
ErrorIsolation ==
    (Published /\ last.errs # <<>>) =>
        /\ last.status = "threw" => last.handlerThrew
        /\ Returned =>
              /\ \A s \in Range(last.finalD) : Invocations(last, s, FALSE) >= 1
              /\ \A s \in Range(last.finalW) : Invocations(last, s, TRUE) >= 1
        /\ Undisturbed =>
              /\ \A s \in Range(last.snapD) : Invocations(last, s, FALSE) >= 1
              /\ \A s \in Range(FanOut(last)) : Invocations(last, s, TRUE) >= 1

\* a publish has returned in which the first subscriber threw and a direct and
\* a wildcard subscriber were invoked after it
ErrorIsolationWitness ==
    /\ Returned /\ Len(last.log) = 3
    /\ last.log[1].out \in Errors
    /\ last.log[2].out = "ok" /\ ~last.log[2].wild
    /\ last.log[3].wild

\* the invocations of the publish call x that threw, in delivery order
Thrown(x) == SelectSeq(x.log, LAMBDA e : e.out \in Errors)

\* the calls of the error handler are, one for one and in order, the throws
Reported(x) ==
    /\ Len(x.errs) = Len(Thrown(x))
    /\ \A i \in 1..Len(x.errs) :
          x.errs[i] = [error |-> Thrown(x)[i].out, topic |-> x.topic,
                       isWildcard |-> Thrown(x)[i].wild]

SameOrder(lg, snap) ==
    /\ Len(lg) = Len(snap)
    /\ \A i \in 1..Len(lg) : lg[i].sub = snap[i]
PrefixOrder(lg, snap) ==
    /\ Len(lg) <= Len(snap)
    /\ \A i \in 1..Len(lg) : lg[i].sub = snap[i]

\* no direct invocation after a wildcard one
DirectFirst(x) ==
    \A i, j \in 1..Len(x.log) : (i < j /\ x.log[i].wild) => x.log[j].wild

InOrder(x) ==
    /\ SameOrder(DirectLog(x), x.snapD)
    /\ SameOrder(WildLog(x), FanOut(x))
    /\ DirectFirst(x)

\* C7 (as stated): within one publish(T, p) the direct subscribers of T are
\* invoked in the order they were added, all before any subscriber of "*",
\* and those in the order they were added to "*".
DeliveryOrderAsStated == Published => InOrder(last)

\* C7: in every publish all direct invocations precede all wildcard ones; as
\* long as no re-entrant call of a callback has changed the registry, the
\* invocations follow the order in which the subscribers were added; and when
\* such a call returns, they are all the subscribers of T and then all those
\* of "*", in that order.
DeliveryOrder ==
    /\ \A i \in 1..Len(stack) :
          /\ DirectFirst(stack[i])
          /\ ~stack[i].mutated =>
                /\ PrefixOrder(DirectLog(stack[i]), stack[i].snapD)
                /\ PrefixOrder(WildLog(stack[i]), FanOut(stack[i]))
    /\ Published => DirectFirst(last)
    /\ (Published /\ ~last.mutated) =>
          /\ PrefixOrder(DirectLog(last), last.snapD)
          /\ PrefixOrder(WildLog(last), FanOut(last))
    /\ Undisturbed => InOrder(last)

\* a publish to "a" with two direct subscribers and a wildcard one has
\* returned undisturbed
DeliveryOrderWitness ==
    /\ Undisturbed /\ last.topic = "a"
    /\ Len(last.snapD) = 2 /\ Len(last.snapW) = 1

\* C8 (as stated): after its first successful removal, every later call of
\* the Unsubscriber that subscribe(T, S) returned leaves the registry as it is.
UnsubscriberIdempotent ==
    [][(held.used /\ CallUnsubscriber(HeldUnsubscriber)) => subs' = subs]_vars

\* the one-shot subscribers that T had when the publish call x was made
OnceAtCall(x) == Wrappers \cap Range(x.snapD)

\* the one-shot callback was invoked exactly once, with the payload of x, and
\* its wrapper is no longer subscribed to the topic
ServedOnce(x, w) ==
    /\ once[w].n = 1
    /\ once[w].arg = [envelope |-> FALSE, event |-> Undefined, data |-> x.data]
    /\ w \notin Range(Entries(subs, x.topic))

\* C9 (as stated): after subscribeOnce(T, cb), the first top-level
\* publish(T, p1) has invoked cb exactly once, with p1, and left the wrapper
\* out of the subscribers of T, so that no later publish invokes it.
SubscribeOnceAsStated ==
    (Published /\ last.depth = 0) => \A w \in OnceAtCall(last) : ServedOnce(last, w)

\* C9: the same of a first top-level publish(T, p1) that returns and during
\* which no re-entrant call of a callback changes the registry.
SubscribeOnceServed ==
    (Undisturbed /\ last.depth = 0) => \A w \in OnceAtCall(last) : ServedOnce(last, w)

\* a top-level publish with a one-shot and an ordinary subscriber has
\* returned undisturbed with the second payload
SubscribeOnceWitness ==
    /\ Undisturbed /\ last.depth = 0 /\ last.data = "p2"
    /\ OnceAtCall(last) # {} /\ Len(last.snapD) = 2

\* the publish call x invoked a one-shot wrapper whose callback threw
OnceThrew(x, w) ==
    \E i \in 1..Len(x.log) : x.log[i].sub = w /\ x.log[i].out \in Errors

AllInvoked(x) ==
    /\ \A s \in Range(x.finalD) : Invocations(x, s, FALSE) >= 1
    /\ \A s \in Range(x.finalW) : Invocations(x, s, TRUE) >= 1

\* C10 (as stated): when the callback of a one-shot wrapper throws, the
\* wrapper is removed all the same, the other subscribers are still invoked
\* in that publish, and publish returns normally.
OnceThrowAsStated ==
    \A w \in Wrappers :
        (Published /\ OnceThrew(last, w)) =>
            /\ ~Registered(subs, w)
            /\ Returned
            /\ AllInvoked(last)

\* C10: when the callback of a one-shot wrapper throws, the wrapper is removed
\* all the same; and provided the error handler does not throw, publish
\* returns normally and the other subscribers have been invoked in it.
OnceThrow ==
    \A w \in Wrappers :
        /\ \A i \in 1..Len(stack) : OnceThrew(stack[i], w) => ~Registered(subs, w)
        /\ (Published /\ OnceThrew(last, w)) =>
              /\ ~Registered(subs, w)
              /\ last.status = "threw" => last.handlerThrew
              /\ Returned => AllInvoked(last)

\* a one-shot callback threw, and the subscriber after it was invoked in the
\* publish that has returned
OnceThrowWitness ==
    /\ Returned /\ Len(last.log) = 2
    /\ last.log[1].sub \in Wrappers /\ last.log[1].out \in Errors
    /\ last.log[2].out = "ok"
    /\ subs # EmptyMap

\* C11: when the Unsubscriber that subscribeOnce(T, cb) returned is called
\* before any publish to T, the one-shot wrapper is no longer registered
\* under T and cb is never invoked, by no later publish.
OnceCancelled ==
    \A w \in DOMAIN once :
        once[w].cancelled =>
            /\ once[w].n = 0
            /\ ~Registered(subs, w)
            /\ \A i \in 1..Len(stack) : stack[i].running # w

\* a publish to the topic of a cancelled one-shot subscription has invoked the
\* other subscriber of the topic and returned
OnceCancelledWitness ==
    /\ Returned /\ Len(last.log) >= 1
    /\ \E w \in DOMAIN once : once[w].cancelled /\ once[w].topic = last.topic

\* C12 (as stated): immediately after subscribe(T, S), isSubscribed(T, S) is
\* true; immediately after the Unsubscriber that call returned is invoked,
\* isSubscribed(T, S) with its default arguments is false.
IsSubscribedFollowsAsStated ==
    /\ last.op = "subscribe" => isSubscribed(subs, last.topic, last.cb, TRUE)
    /\ (last.op = "unsubscriber" /\ last.cb \in Callbacks) =>
          ~isSubscribed(subs, last.topic, last.cb, TRUE)

\* C12: immediately after subscribe(T, S), isSubscribed(T, S) is true, with
\* and without the wildcard; immediately after the Unsubscriber is invoked,
\* isSubscribed(T, S, false) is false, and isSubscribed(T, S) with its default
\* arguments is true exactly when S is subscribed to "*".
IsSubscribedFollows ==
    /\ last.op = "subscribe" =>
          /\ isSubscribed(subs, last.topic, last.cb, TRUE)
          /\ isSubscribed(subs, last.topic, last.cb, FALSE)
    /\ (last.op = "unsubscriber" /\ last.cb \in Callbacks) =>
          /\ ~isSubscribed(subs, last.topic, last.cb, FALSE)
          /\ isSubscribed(subs, last.topic, last.cb, TRUE)
                = (last.cb \in Range(Entries(subs, WILDCARD)))

\* the Unsubscriber of a subscription to "a" has removed it while the same
\* callback is subscribed to "*"
IsSubscribedFollowsWitness ==
    /\ last.op = "unsubscriber" /\ last.cb \in Callbacks /\ last.val
    /\ last.topic = "a"
    /\ last.cb \in Range(Entries(subs, WILDCARD))

\* C13: isSubscribed(T, S, considerWildcard) returns true exactly when S is in
\* the Set of T, or considerWildcard is true and S is in the Set of "*"; the
\* call leaves the registry as it is and creates no entry.
IsSubscribedPure ==
    [][\A t \in Topics, cb \in Callbacks, w \in BOOLEAN :
          IsSubscribed(t, cb, w) =>
              /\ subs' = subs
              /\ last'.val = (\/ cb \in Range(Entries(subs, t))
                              \/ w /\ cb \in Range(Entries(subs, WILDCARD)))]_vars

\* isSubscribed without the wildcard has returned false for a topic without
\* entry and a callback that is subscribed to "*"
IsSubscribedPureWitness ==
    /\ last.op = "isSubscribed" /\ ~last.considerWildcard /\ ~last.val
    /\ last.topic \notin DOMAIN subs
    /\ last.cb \in Range(Entries(subs, WILDCARD))

\* the Map after is the Map before without the entry of topic t
EntryRemoved(t) ==
    /\ DOMAIN subs' = (DOMAIN subs) \ {t}
    /\ \A k \in DOMAIN subs' : subs'[k] = subs[k]

\* C14 (as stated): unsubscribe(T) without a callback removes the entry of T
\* with all its subscribers in one step and leaves the entries of the other
\* topics as they are; a publish(T, p) called when T has no entry, as it is
\* after that step, invokes no direct subscriber and returns false.
UnsubscribeTopicAsStated ==
    /\ [][\A t \in Topics : Unsubscribe(t, NoCb) => EntryRemoved(t)]_vars
    /\ [](Returned /\ last.snapD = <<>> => DirectLog(last) = <<>> /\ ~last.val)

\* C15: unsubscribe returns true exactly when it changed the registry:
\* unsubscribe(T, S) exactly when S was in the Set of T, and then it removes S
\* alone (and the entry when S was the last); unsubscribe(T) exactly when T
\* had an entry; when it returns false the registry is unchanged.
UnsubscribeResultTells ==
    [][\A t \in Topics, cb \in Callbacks \cup {NoCb} :
          Unsubscribe(t, cb) =>
              LET was  == IF cb = NoCb THEN t \in DOMAIN subs
                          ELSE cb \in Range(Entries(subs, t))
                  rest == SelectSeq(Entries(subs, t), LAMBDA y : y # cb)
              IN  /\ last'.val = was
                  /\ ~was => subs' = subs
                  /\ was => subs' # subs
                  /\ \A k \in Topics \ {t} :
                        /\ k \in DOMAIN subs' <=> k \in DOMAIN subs
                        /\ Entries(subs', k) = Entries(subs, k)
                  /\ (was /\ cb # NoCb) =>
                        /\ Entries(subs', t) = rest
                        /\ t \in DOMAIN subs' <=> rest # <<>>
                  /\ (was /\ cb = NoCb) => t \notin DOMAIN subs']_vars

\* unsubscribe(T, S) has returned false for a topic that has an entry
UnsubscribeResultTellsWitness ==
    /\ last.op = "unsubscribe" /\ last.cb # NoCb /\ ~last.val
    /\ last.topic \in DOMAIN subs

\* C16 (as stated): for every topic string T, unsubscribeAll(T) removes the
\* entry of T and nothing else, and returns whether T had an entry.
UnsubscribeAllTopicAsStated ==
    [][\A t \in Topics :
          UnsubscribeAll(t) =>
              /\ EntryRemoved(t)
              /\ last'.val = (t \in DOMAIN subs)]_vars

\* C17 (as stated): subscribe with an empty topic name fails with an error at
\* the call and leaves the registry as it is.
SubscribeValidatesAsStated ==
    [][\A cb \in Callbacks :
          Subscribe("", cb, FALSE) =>
              subs' = subs /\ last'.status = "threw"]_vars

\* C18 (as stated): adding to, deleting from or clearing anything reachable
\* from the value the debug dump returned does not change the registry.
DumpIsCopyAsStated ==
    [][(\E t \in Topics :
           \/ \E cb \in Callbacks : DumpSetAdd(t, cb) \/ DumpSetDelete(t, cb)
           \/ DumpSetClear(t)
           \/ DumpDeleteKey(t)) => subs' = subs]_vars

\* no Set holds a subscriber twice
NoDuplicates ==
    \A t \in DOMAIN subs :
        \A i, j \in 1..Len(subs[t]) : subs[t][i] = subs[t][j] => i = j

\* subscribe(T, S) of an S that is in the Set of T leaves the Map as it is
SubscribeAgainChangesNothing ==
    \A t \in Topics, cb \in Callbacks :
        (cb \in Range(Entries(subs, t)) /\ Subscribe(t, cb, FALSE)) => subs' = subs

\* C19 (as stated): subscribe(T, S) when S is already in the Set of T leaves
\* the mapping unchanged, S's position included, so a following publish(T, p)
\* invokes S exactly once.
SubscribeIdempotentAsStated ==
    /\ [][SubscribeAgainChangesNothing]_vars
    /\ [](Published =>
             \A s \in Range(last.snapD) : Invocations(last, s, FALSE) = 1)

\* C19: subscribe(T, S) when S is already in the Set of T leaves the mapping
\* unchanged, S's position included, and no Set ever holds a subscriber
\* twice; so a following publish(T, p) that returns and that no re-entrant
\* call of a callback disturbs invokes S exactly once.
SubscribeIdempotent ==
    /\ [][SubscribeAgainChangesNothing]_vars
    /\ [](/\ NoDuplicates
          /\ Undisturbed =>
                \A s \in Range(last.snapD) : Invocations(last, s, FALSE) = 1)

\* subscribe has been called for the first of two subscribers of a topic,
\* which is still the first
SubscribeIdempotentWitness ==
    /\ last.op = "subscribe" /\ last.had
    /\ Len(subs[last.topic]) = 2 /\ subs[last.topic][1] = last.cb

\* C20: in every reachable state, subscribe(T, S) of an S not subscribed to T,
\* followed at once by unsubscribe(T, S) or by the returned Unsubscriber,
\* gives the mapping that held before the subscribe: without the key T if it
\* was absent, with the other subscribers of T in their order.
RoundTrip ==
    (last.op = "subscribe" /\ ~last.had) =>
        /\ unsubscribe(subs, last.topic, last.cb) = last.before
        /\ unsubscriberCall(subs, [topic |-> last.topic, cb |-> last.cb])
              = last.before

\* a subscriber has been added as the third of a topic
RoundTripWitness ==
    /\ last.op = "subscribe" /\ ~last.had
    /\ Len(subs[last.topic]) = 3

\* C21 (as stated): when a callback running inside publish(T, p) removes a
\* subscriber of T with unsubscribe(T, X), every other subscriber that was
\* registered for T when the pass began and is not itself removed is invoked
\* exactly once in that pass.
PassRobustAsStated ==
    (Published /\ last.gone # {}) =>
        \A y \in Range(last.snapD) \ last.gone : Invocations(last, y, FALSE) = 1

\* the subscribers of the topic of pass x that were there when it began and
\* were not taken out while its first loop ran are invoked at most n times and
\* at least k times by that loop
Kept(x, k, n) ==
    \A y \in Range(x.snapD) \ x.gone :
        /\ Invocations(x, y, FALSE) >= k
        /\ Invocations(x, y, FALSE) <= n

\* C21: when a callback running inside publish(T, p) removes a subscriber of
\* T, every other subscriber that was registered for T when the pass began and
\* is not itself removed is never invoked twice in that pass, whether the pass
\* is in progress or over, and is invoked exactly once when publish returns.
PassRobust ==
    /\ \A i \in 1..Len(stack) : stack[i].gone # {} => Kept(stack[i], 0, 1)
    /\ (Published /\ last.gone # {}) => Kept(last, 0, 1)
    /\ (Returned /\ last.gone # {}) => Kept(last, 1, 1)

\* a publish has returned during which a re-entrant call of a callback removed
\* one of three direct subscribers before its turn, the other two having been
\* invoked
PassRobustWitness ==
    /\ Returned /\ last.mutated
    /\ Len(last.snapD) = 3
    /\ \E x \in Range(last.snapD) :
          /\ last.gone = {x}
          /\ Invocations(last, x, FALSE) = 0
          /\ Len(DirectLog(last)) = 2

\* the step makes a publish call invoke a callback: the call on top of the
\* stack is new, or its record has one more invocation
Invoked ==
    /\ stack' # <<>>
    /\ LET n == Len(stack')
       IN  /\ stack'[n].running # NoCb
           /\ \/ n > Len(stack)
              \/ Len(stack'[n].log) > Len(stack[n].log)

\* C22 (as stated): once unsubscribe(T) without a callback, unsubscribeAll(T)
\* or unsubscribeAll() has returned, no subscriber it removed is invoked until
\* it is subscribed again, also when the call was made by a callback during a
\* pass over T: whenever a pass invokes a subscriber, that subscriber is in
\* the Set the Map holds, at that moment, for the topic the loop goes through.
RemovedNotInvokedAsStated ==
    [][Invoked =>
          LET g == stack'[Len(stack')]
          IN  g.running \in Range(Entries(subs', Key(g)))]_vars

\* C23 (as stated): every publish(T, p) call completes: when every callback
\* invocation returns or throws, and callbacks call subscribe and unsubscribe
\* but not publish, the pass makes finitely many invocations and publish comes
\* back.
PublishCompletesAsStated == (stack # <<>>) ~> (stack = <<>>)

\* C24 (as stated): the callback given to subscribeOnce(T, cb) is invoked at
\* most once over the life of the subscription, whatever the callbacks do,
\* also when a callback publishes T again while the first delivery is in
\* progress.
OnceAtMostOnceAsStated == \A w \in DOMAIN once : once[w].n <= 1

\* C25 (as stated): whenever a subscriber registered under "*" throws during
\* a publish call, of an ordinary topic or of "*" itself, the error handler is
\* called with isWildcard true, and with isWildcard false only for the other
\* subscribers.  Stated of the calls during which the registry did not change.
WildcardFlagAsStated ==
    Undisturbed =>
        \A i \in 1..Len(last.errs) :
            last.errs[i].isWildcard = (Thrown(last)[i].sub \in Range(last.snapW))

====
